---- MODULE Spec2Model ----
(***************************************************************************)
(* Model of mysh.c: the chunked line reader read_input() with its static   *)
(* residual state, and the main() read loop that drives it.                *)
(*                                                                         *)
(* Bytes are one-character strings; a byte sequence is a TLA+ sequence of  *)
(* them.  A stream is a finite file: read() hands out between 1 and        *)
(* READ_CHUNK_SIZE of the remaining bytes, 0 at the end, or fails.         *)
(* realloc() is taken to succeed and fileno() of an open stream to return  *)
(* a valid descriptor (lines 138, 158-161, 212-215, 246-249 are the        *)
(* out-of-memory / closed-stream exits).  The diagnostic printf of line    *)
(* 194 and the fclose of line 112 write no state the program reads back    *)
(* and are left out.                                                       *)
(***************************************************************************)
EXTENDS Integers, Sequences, FiniteSets, TLC

\* ------------------------------------------------------------------ bounds
MaxStreamLen == 5      \* longest byte stream fed to the reader harness
MaxCalls == 7          \* read_input calls the reader harness makes
MaxErrors == 1         \* failing read() calls in one run
MaxLines == 2          \* input lines on stdin in a run of main()
MaxSwitchLen == 3      \* longest stream when the harness alternates two streams
MaxSwitchCalls == 4    \* read_input calls the alternating harness makes
MaxTokLine == 4        \* longest line fed to the tokenizer through main()
MaxLongLine == 257     \* longest run of non-newline bytes in a long stream
MaxSessionLines == 2   \* lines on standard input in the sessions run to their end

\* ------------------------------------------------------- program constants
READ_CHUNK_SIZE == 128

NL == "\n"
NUL == "NUL"      \* the zero byte
SP == " "
TAB == "\t"

Streams == {"stdin", "file"}
NoFile == "NULL"

\* Bytes the reader harness draws its streams from.
Alphabet == {"a", "b", NL}

VARIABLES
    \* environment
    data,           \* data[s]: all bytes of stream s
    pos,            \* pos[s]: file offset of stream s
    \* read_input: static state
    leftover,       \* leftover[0 .. leftover_size-1]; leftover_size = Len(leftover)
    eof_reached,
    last_file,
    \* read_input: the call in progress
    source,         \* the FILE* argument
    buffer,         \* buffer[0 .. size-1]; size = Len(buffer)
    capacity,       \* 0 iff buffer = NULL
    rpc,            \* "idle" | "read" (at the read() of line 193) | "ret"
    ret,            \* the returned char*
    \* history
    lines,          \* strings read_input has handed to its caller, in order
    calls,          \* read_input calls made
    nerr,           \* read() calls that failed
    sawEOF,         \* streams on which a read() has returned 0
    cause,          \* why the last call returned
    mark,           \* offset of the stream, and Len(lines), when it was last bound
    \* main()
    argc, stdin_tty, fopen_ok,
    interactive, input_source, mpc,
    exit_code,      \* the process exit status, once mpc = "exited"
    greetings, prompts, farewells,
    tokens, token_count,    \* of the line tokenized last
    children        \* child processes created so far

envVars == <<data, pos>>
staticVars == <<leftover, eof_reached, last_file>>
callVars == <<source, buffer, capacity, rpc, ret>>
histVars == <<lines, calls, nerr, sawEOF, cause, mark>>
mainVars == <<argc, stdin_tty, fopen_ok, interactive, input_source, mpc,
              exit_code, greetings, prompts, farewells,
              tokens, token_count, children>>
vars == <<envVars, staticVars, callVars, histVars, mainVars>>

\* ------------------------------------------------------------ byte strings
RECURSIVE SeqsUpTo(_, _)
SeqsUpTo(S, n) ==
    IF n = 0 THEN {<<>>}
    ELSE LET shorter == SeqsUpTo(S, n - 1)
         IN  shorter \cup {Append(s, x) : s \in {t \in shorter : Len(t) = n - 1}, x \in S}

\* What a caller sees of a char*: the bytes before the first NUL.
CStr(b) ==
    LET nuls == {j \in 1..Len(b) : b[j] = NUL}
    IN  IF nuls = {} THEN b
        ELSE SubSeq(b, 1, (CHOOSE j \in nuls : \A k \in nuls : j <= k) - 1)

NullRet == [null |-> TRUE, str |-> <<>>]
StrRet(s) == [null |-> FALSE, str |-> s]

\* --------------------------------------------------------------- read_input
\* Mutant: room is made only once the buffer is full.
Grow_LateCheck(size, cap) ==
    IF size >= cap
    THEN (IF cap = 0 THEN READ_CHUNK_SIZE ELSE cap * 2)
    ELSE cap

\* Lines 155-157 / 209-211: capacity after making room for one more byte.
Grow(size, cap) ==
    IF size + 1 >= cap
    THEN (IF cap = 0 THEN READ_CHUNK_SIZE ELSE cap * 2)
    ELSE cap

\* One Grow per byte stored, at each buffer size from first to last in turn
\* (half is the capacity after the lower half of the sizes).
RECURSIVE GrowAll(_, _, _)
GrowAll(first, last, cap) ==
    IF first > last THEN cap
    ELSE IF first = last THEN Grow(first, cap)
    ELSE LET mid == (first + last) \div 2
         IN  CHOOSE c \in {GrowAll(mid + 1, last, half) :
                             half \in {GrowAll(first, mid, cap)}} : TRUE

\* The byte loop of lines 153-173 and 207-225, from index i of bytes: append to
\* the result until a newline has been appended or bytes is used up.
Scan(buf, cap, bytes, i) ==
    IF i >= Len(bytes)
    THEN [buffer |-> buf, capacity |-> cap, i |-> i, found |-> FALSE]
    ELSE LET nls == {j \in (i + 1)..Len(bytes) : bytes[j] = NL}
             stop == IF nls = {} THEN Len(bytes)
                     ELSE CHOOSE j \in nls : \A k \in nls : j <= k
             taken == SubSeq(bytes, i + 1, stop)
         IN  [buffer |-> buf \o taken,
              capacity |-> GrowAll(Len(buf), Len(buf) + Len(taken) - 1, cap),
              i |-> stop, found |-> nls # {}]

\* Mutant: the residual bytes survive a change of stream.
ResetLeftover_Keep(s) == leftover

\* Lines 131-135: the static state seen by a call on stream s.
ResetLeftover(s) == IF last_file # s THEN <<>> ELSE leftover
ResetEof(s) == IF last_file # s THEN FALSE ELSE eof_reached

\* Line 146.
EarlyNull(eof, lsize) == eof /\ lsize = 0

\* Mutant: the consumed newline stays in the residual.
UpdateLeftover_KeepNewline(lo, i) ==
    IF i < Len(lo) THEN SubSeq(lo, i, Len(lo)) ELSE <<>>

\* Mutant: a fully consumed residual is not marked empty.
UpdateLeftover_NotCleared(lo, i) ==
    IF i < Len(lo) THEN SubSeq(lo, i + 1, Len(lo)) ELSE lo

\* Lines 176-183: leftover after i of its bytes were consumed.
UpdateLeftover(lo, i) ==
    IF i < Len(lo) THEN SubSeq(lo, i + 1, Len(lo)) ELSE <<>>

\* Mutant: the read loop goes on after a newline was stored.
LoopCond_IgnoreFound(found, eof) == ~eof

\* Line 191.
LoopCond(found, eof) == ~found /\ ~eof

\* Mutant: the flag is not set when read() returns 0.
EofAfterRead_NotSet(bytes_read, eof) == eof

\* Lines 200-201: the flag after a read() that returned bytes_read.
EofAfterRead(bytes_read, eof) == IF bytes_read = 0 THEN TRUE ELSE eof

\* Mutant: the first leftover byte is skipped.
SaveLeftover_OffByOne(lo, chunk, i) ==
    IF i < Len(chunk) THEN SubSeq(chunk, i + 2, Len(chunk)) ELSE lo

\* Lines 228-231: leftover after i bytes of the chunk were consumed.
SaveLeftover(lo, chunk, i) ==
    IF i < Len(chunk) THEN SubSeq(chunk, i + 1, Len(chunk)) ELSE lo

\* Mutant: end-of-stream alone discards the accumulated bytes.
EofNoData_IgnoreSize(size, eof) == eof

\* Line 235.
EofNoData(size, eof) == size = 0 /\ eof

\* Lines 240-260: terminate, strip one trailing newline, return the buffer.
FinishLine(buf, cap) ==
    IF cap = 0 THEN NullRet
    ELSE LET size == Len(buf)
             b == IF size > 0 /\ buf[size] = NL THEN SubSeq(buf, 1, size - 1) ELSE buf
         IN  StrRet(CStr(b))

\* Lines 234-260: what the call returns once the read loop is left.
AfterLoop(buf, cap, eof) ==
    IF EofNoData(Len(buf), eof) THEN NullRet ELSE FinishLine(buf, cap)

\* Lines 244-250: the allocation after making room for the terminator.
FinishCapacity(size, cap) == IF size >= cap THEN size + 1 ELSE cap

\* A return of v: with a line, buf is the allocation handed to the caller;
\* with NULL, the buffer was never allocated or has been freed.
Return(v, why, buf, cap) ==
    /\ ret' = v
    /\ cause' = why
    /\ rpc' = "ret"
    /\ buffer' = IF v.null THEN <<>> ELSE buf
    /\ capacity' = IF v.null THEN 0 ELSE FinishCapacity(Len(buf), cap)

\* Lines 124-191: entry of read_input(s), up to the first read() or a return.
Enter(s) ==
    LET lo0 == ResetLeftover(s)
        eof0 == ResetEof(s)
        r == IF Len(lo0) > 0
             THEN Scan(<<>>, 0, lo0, 0)
             ELSE [buffer |-> <<>>, capacity |-> 0, i |-> 0, found |-> FALSE]
        lo1 == IF Len(lo0) > 0 THEN UpdateLeftover(lo0, r.i) ELSE lo0
    IN  /\ rpc = "idle"
        /\ source' = s
        /\ last_file' = s
        /\ eof_reached' = eof0
        /\ calls' = calls + 1
        /\ IF EarlyNull(eof0, Len(lo0))
           THEN leftover' = lo0 /\ Return(NullRet, "eofflag", <<>>, 0)
           ELSE /\ leftover' = lo1
                /\ IF r.found
                   THEN Return(FinishLine(r.buffer, r.capacity), "residual",
                               r.buffer, r.capacity)
                   ELSE IF LoopCond(r.found, eof0)
                        THEN /\ rpc' = "read"
                             /\ buffer' = r.buffer
                             /\ capacity' = r.capacity
                             /\ UNCHANGED <<ret, cause>>
                        ELSE Return(AfterLoop(r.buffer, r.capacity, eof0), "tail",
                                    r.buffer, r.capacity)
        /\ UNCHANGED <<envVars, lines, nerr, sawEOF>>

\* Lines 193, 205-232: read() returned n > 0 bytes.
ReadChunk(n) ==
    /\ rpc = "read"
    /\ n >= 1
    /\ n <= READ_CHUNK_SIZE
    /\ pos[source] + n <= Len(data[source])
    /\ LET chunk == SubSeq(data[source], pos[source] + 1, pos[source] + n)
           r == Scan(buffer, capacity, chunk, 0)
           eof1 == EofAfterRead(n, eof_reached)
       IN  /\ pos' = [pos EXCEPT ![source] = @ + n]
           /\ leftover' = SaveLeftover(leftover, chunk, r.i)
           /\ eof_reached' = eof1
           /\ IF LoopCond(r.found, eof1)
              THEN /\ buffer' = r.buffer
                   /\ capacity' = r.capacity
                   /\ UNCHANGED <<rpc, ret, cause>>
              ELSE Return(AfterLoop(r.buffer, r.capacity, eof1), "line",
                          r.buffer, r.capacity)
    /\ UNCHANGED <<data, last_file, source, lines, calls, nerr, sawEOF, mark,
                   mainVars>>

\* Lines 193, 200-203, 234-260: read() returned 0.
ReadEOF ==
    /\ rpc = "read"
    /\ pos[source] = Len(data[source])
    /\ LET eof1 == EofAfterRead(0, eof_reached)
       IN  /\ eof_reached' = eof1
           /\ Return(AfterLoop(buffer, capacity, eof1),
                     IF Len(buffer) = 0 THEN "eof" ELSE "tail",
                     buffer, capacity)
    /\ sawEOF' = sawEOF \cup {source}
    /\ UNCHANGED <<envVars, leftover, last_file, source, lines, calls, nerr, mark,
                   mainVars>>

\* Lines 193, 196-199: read() failed.
ReadError ==
    /\ rpc = "read"
    /\ nerr < MaxErrors
    /\ nerr' = nerr + 1
    /\ Return(NullRet, "error", <<>>, 0)
    /\ UNCHANGED <<envVars, staticVars, source, lines, calls, sawEOF, mark,
                   mainVars>>

\* ------------------------------------------------------------ reader harness
\* The loop of the test main (lines 268-283) on one opened file, kept running
\* after the first NULL.
HarnessCall ==
    /\ mpc = "harness"
    /\ calls < MaxCalls
    /\ Enter("file")
    /\ UNCHANGED <<mark, mainVars>>

HarnessReturn ==
    /\ mpc \in {"harness", "switch"}
    /\ rpc = "ret"
    /\ rpc' = "idle"
    /\ lines' = IF ret.null THEN lines ELSE Append(lines, ret.str)
    /\ buffer' = <<>>
    /\ capacity' = 0
    /\ UNCHANGED <<envVars, staticVars, source, ret,
                   calls, nerr, sawEOF, cause, mark, mainVars>>

InitStatic ==
    /\ leftover = <<>>
    /\ eof_reached = FALSE
    /\ last_file = NoFile
    /\ source = NoFile
    /\ buffer = <<>>
    /\ capacity = 0
    /\ rpc = "idle"
    /\ ret = NullRet
    /\ lines = <<>>
    /\ calls = 0
    /\ nerr = 0
    /\ sawEOF = {}
    /\ cause = "none"
    /\ mark = [pos |-> 0, nlines |-> 0]

InitReader ==
    /\ \E d \in SeqsUpTo(Alphabet, MaxStreamLen) :
          data = [s \in Streams |-> IF s = "file" THEN d ELSE <<>>]
    /\ pos = [s \in Streams |-> 0]
    /\ InitStatic
    /\ argc = 1 /\ stdin_tty = FALSE /\ fopen_ok = TRUE
    /\ interactive = FALSE /\ input_source = "file" /\ mpc = "harness"
    /\ exit_code = 0 /\ greetings = 0 /\ prompts = 0 /\ farewells = 0
    /\ tokens = <<>> /\ token_count = 0 /\ children = 0

NextReader ==
    \/ HarnessCall
    \/ HarnessReturn
    \/ \E n \in 1..READ_CHUNK_SIZE : ReadChunk(n)
    \/ ReadEOF
    \/ ReadError

SpecReader == InitReader /\ [][NextReader]_vars

\* ------------------------------------------------------------- long lines
\* The single-stream harness on streams whose lines are as long as one or two
\* chunks and more; read() returns a full chunk, one byte less, or what is left
\* of the stream.
Rep(x, n) == [i \in 1..n |-> x]

LongLens ==
    {0, 1, READ_CHUNK_SIZE - 2, READ_CHUNK_SIZE - 1, READ_CHUNK_SIZE,
     2 * READ_CHUNK_SIZE - 1, 2 * READ_CHUNK_SIZE, MaxLongLine}

LongStreams ==
    {Rep("a", n) \o t : n \in LongLens, t \in {<<>>, <<NL>>, <<NL, "b">>}}
    \cup {<<NL>> \o Rep("a", n) \o t :
             n \in {READ_CHUNK_SIZE - 2, READ_CHUNK_SIZE - 1, READ_CHUNK_SIZE},
             t \in {<<>>, <<NL, "b">>}}

LongReadSizes(left) ==
    {n \in {READ_CHUNK_SIZE - 1, READ_CHUNK_SIZE, left} :
        n >= 1 /\ n <= READ_CHUNK_SIZE}

InitLong ==
    /\ \E d \in LongStreams :
          data = [s \in Streams |-> IF s = "file" THEN d ELSE <<>>]
    /\ pos = [s \in Streams |-> 0]
    /\ InitStatic
    /\ argc = 1 /\ stdin_tty = FALSE /\ fopen_ok = TRUE
    /\ interactive = FALSE /\ input_source = "file" /\ mpc = "harness"
    /\ exit_code = 0 /\ greetings = 0 /\ prompts = 0 /\ farewells = 0
    /\ tokens = <<>> /\ token_count = 0 /\ children = 0

LongRead ==
    /\ rpc = "read"
    /\ \E n \in LongReadSizes(Len(data[source]) - pos[source]) : ReadChunk(n)

NextLong ==
    \/ HarnessCall
    \/ HarnessReturn
    \/ LongRead
    \/ ReadEOF
    \/ ReadError

SpecLong == InitLong /\ [][NextLong]_vars

\* ------------------------------------------------- two streams, alternating
\* read_input called on either of two open streams in any order; mark
\* remembers where the stream stood when the reader was last bound to it.
SwitchCall(s) ==
    /\ mpc = "switch"
    /\ calls < MaxSwitchCalls
    /\ Enter(s)
    /\ mark' = IF last_file # s
               THEN [pos |-> pos[s], nlines |-> Len(lines)]
               ELSE mark
    /\ UNCHANGED mainVars

InitSwitch ==
    /\ \E d1 \in SeqsUpTo({"a", NL}, MaxSwitchLen),
          d2 \in SeqsUpTo({"b", NL}, MaxSwitchLen) :
          data = [s \in Streams |-> IF s = "stdin" THEN d1 ELSE d2]
    /\ pos = [s \in Streams |-> 0]
    /\ InitStatic
    /\ argc = 1 /\ stdin_tty = FALSE /\ fopen_ok = TRUE
    /\ interactive = FALSE /\ input_source = "file" /\ mpc = "switch"
    /\ exit_code = 0 /\ greetings = 0 /\ prompts = 0 /\ farewells = 0
    /\ tokens = <<>> /\ token_count = 0 /\ children = 0

NextSwitch ==
    \/ \E s \in Streams : SwitchCall(s)
    \/ HarnessReturn
    \/ \E n \in 1..READ_CHUNK_SIZE : ReadChunk(n)
    \/ ReadEOF

SpecSwitch == InitSwitch /\ [][NextSwitch]_vars

\* --------------------------------------------------------------- tokenizer
\* token_input is declared at line 13 and called at line 74; its body is not
\* in the source.  It is modelled from its contract: whitespace separates
\* words, and each of < > | is a token of its own.
IsSpace(c) == c \in {SP, TAB, NL}
\* Mutant: the pipe character is an ordinary word character.
IsOperator_NoPipe(c) == c \in {"<", ">"}

IsOperator(c) == c \in {"<", ">", "|"}

RECURSIVE TokScan(_, _, _)
TokScan(rest, cur, acc) ==
    LET flushed == IF cur = <<>> THEN acc ELSE Append(acc, cur)
    IN  IF rest = <<>> THEN flushed
        ELSE IF IsSpace(Head(rest)) THEN TokScan(Tail(rest), <<>>, flushed)
        ELSE IF IsOperator(Head(rest))
             THEN TokScan(Tail(rest), <<>>, Append(flushed, <<Head(rest)>>))
        ELSE TokScan(Tail(rest), Append(cur, Head(rest)), acc)

token_input(line) == TokScan(line, <<>>, <<>>)

\* --------------------------------------------------------------------- main
EXIT_FAILURE == 1

ExitWord == <<"e", "x", "i", "t">>
DieWord == <<"d", "i", "e">>

\* Mutant: one argument too many is accepted.
UsageError_OffByOne(n) == n > 3

\* Line 38.
UsageError(n) == n > 2

\* Line 56.
GreetingPrinted(inter) == inter

\* Mutant: the prompt is never printed.
PromptPrinted_Never(inter) == FALSE

\* Line 63.
PromptPrinted(inter) == inter

\* Line 106.
FarewellPrinted(inter) == inter

\* Line 68: the stream main() hands to read_input.
ReadSource == "stdin"

\* Mutant: only exit ends the session.
IsTerminator_ExitOnly(tok) == tok = ExitWord

\* Line 94.
IsTerminator(tok) == tok = ExitWord \/ tok = DieWord

\* Mutant: exit and die are treated as any other command.
LoopOutcome_QuitContinues(r) ==
    IF r.null THEN "eof"
    ELSE LET toks == token_input(r.str)
         IN  IF Len(toks) = 0 THEN "skip" ELSE "next"

\* Mutant: a NULL from read_input does not leave the loop.
LoopOutcome_NullContinues(r) ==
    IF r.null THEN "skip"
    ELSE LET toks == token_input(r.str)
         IN  IF Len(toks) = 0 THEN "skip"
             ELSE IF IsTerminator(toks[1]) THEN "quit"
             ELSE "next"

\* Mutant: a line without tokens leaves the loop.
LoopOutcome_EmptyBreaks(r) ==
    IF r.null THEN "eof"
    ELSE LET toks == token_input(r.str)
         IN  IF Len(toks) = 0 THEN "quit"
             ELSE IF IsTerminator(toks[1]) THEN "quit"
             ELSE "next"

\* Lines 70-103: what one loop iteration does with the returned line:
\* "eof" and "quit" are the two breaks, "skip" and "next" the two continues.
LoopOutcome(r) ==
    IF r.null THEN "eof"
    ELSE LET toks == token_input(r.str)
         IN  IF Len(toks) = 0 THEN "skip"
             ELSE IF IsTerminator(toks[1]) THEN "quit"
             ELSE "next"

Count(b) == IF b THEN 1 ELSE 0

\* Lines 86-91: what the loop does with the tokens of a command line between
\* the empty-line check and the exit check: nothing is dispatched, no process
\* is created.
ChildrenSpawned(toks) == 0

\* Lines 25-58: argument check, batch file, greeting.
MainStart ==
    /\ mpc = "start"
    /\ IF UsageError(argc) \/ (argc = 2 /\ ~fopen_ok)
       THEN /\ exit_code' = EXIT_FAILURE
            /\ mpc' = "exited"
            /\ UNCHANGED <<interactive, input_source, greetings>>
       ELSE LET inter == IF argc = 2 THEN FALSE ELSE stdin_tty
            IN  /\ interactive' = inter
                /\ input_source' = IF argc = 2 THEN "file" ELSE "stdin"
                /\ greetings' = greetings + Count(GreetingPrinted(inter))
                /\ mpc' = "loop"
                /\ UNCHANGED exit_code
    /\ UNCHANGED <<envVars, staticVars, callVars, histVars,
                   argc, stdin_tty, fopen_ok, prompts, farewells,
                   tokens, token_count, children>>

\* Lines 62-68: prompt, then the call of read_input.
MainRead ==
    /\ mpc = "loop"
    /\ prompts' = prompts + Count(PromptPrinted(interactive))
    /\ Enter(ReadSource)
    /\ mpc' = "wait"
    /\ UNCHANGED <<argc, stdin_tty, fopen_ok, interactive, input_source,
                   exit_code, greetings, farewells,
                   tokens, token_count, children, mark>>

\* Lines 70-115: the rest of the iteration, and the exit when the loop breaks.
MainLine ==
    /\ mpc = "wait"
    /\ rpc = "ret"
    /\ rpc' = "idle"
    /\ lines' = IF ret.null THEN lines ELSE Append(lines, ret.str)
    /\ buffer' = <<>>
    /\ capacity' = 0
    /\ IF ret.null
       THEN UNCHANGED <<tokens, token_count, children>>
       ELSE LET toks == token_input(ret.str)
            IN  /\ tokens' = toks
                /\ token_count' = Len(toks)
                /\ children' = children +
                      (IF Len(toks) = 0 THEN 0 ELSE ChildrenSpawned(toks))
    /\ IF LoopOutcome(ret) \in {"eof", "quit"}
       THEN /\ farewells' = farewells + Count(FarewellPrinted(interactive))
            /\ exit_code' = 0
            /\ mpc' = "exited"
       ELSE /\ mpc' = "loop"
            /\ UNCHANGED <<farewells, exit_code>>
    /\ UNCHANGED <<envVars, staticVars, source, ret,
                   calls, nerr, sawEOF, cause, mark,
                   argc, stdin_tty, fopen_ok, interactive, input_source,
                   greetings, prompts>>

\* Lines typed on, or piped into, standard input.
InputLines ==
    { <<>>,
      <<SP, TAB>>,
      ExitWord,
      DieWord \o <<SP, "3">>,
      <<"a", SP>> \o ExitWord,
      <<"a", SP>> \o DieWord }

\* Every line followed by its newline, except that the last may lack it.
RECURSIVE JoinLines(_, _)
JoinLines(ls, terminated) ==
    IF ls = <<>> THEN <<>>
    ELSE IF Len(ls) = 1 THEN Head(ls) \o (IF terminated THEN <<NL>> ELSE <<>>)
    ELSE Head(ls) \o <<NL>> \o JoinLines(Tail(ls), terminated)

StdinContents ==
    {JoinLines(ls, t) : ls \in SeqsUpTo(InputLines, MaxLines), t \in BOOLEAN}

ScriptContents == ExitWord \o <<NL>>

Init ==
    /\ \E d \in StdinContents :
          data = [s \in Streams |-> IF s = "stdin" THEN d ELSE ScriptContents]
    /\ pos = [s \in Streams |-> 0]
    /\ InitStatic
    /\ argc \in {1, 2, 3}
    /\ stdin_tty \in BOOLEAN
    /\ fopen_ok \in (IF argc = 2 THEN BOOLEAN ELSE {TRUE})
    /\ interactive = FALSE /\ input_source = "stdin" /\ mpc = "start"
    /\ exit_code = 0 /\ greetings = 0 /\ prompts = 0 /\ farewells = 0
    /\ tokens = <<>> /\ token_count = 0 /\ children = 0

Next ==
    \/ MainStart
    \/ MainRead
    \/ MainLine
    \/ \E n \in 1..READ_CHUNK_SIZE : ReadChunk(n)
    \/ ReadEOF
    \/ ReadError

Spec == Init /\ [][Next]_vars

\* Whole sessions on a finite standard input.
SessionLines == {<<>>, <<"a">>, ExitWord, DieWord}

InitSession ==
    /\ \E ls \in SeqsUpTo(SessionLines, MaxSessionLines), t \in BOOLEAN :
          data = [s \in Streams |->
                    IF s = "stdin" THEN JoinLines(ls, t) ELSE ScriptContents]
    /\ pos = [s \in Streams |-> 0]
    /\ InitStatic
    /\ argc \in {1, 2, 3}
    /\ stdin_tty = FALSE /\ fopen_ok = TRUE
    /\ interactive = FALSE /\ input_source = "stdin" /\ mpc = "start"
    /\ exit_code = 0 /\ greetings = 0 /\ prompts = 0 /\ farewells = 0
    /\ tokens = <<>> /\ token_count = 0 /\ children = 0

\* The process is sequential and every read() on a finite stream returns: a
\* step that can be taken is taken.
FairSpec == InitSession /\ [][Next]_vars /\ WF_vars(Next)

\* One line on standard input, over words, blanks and the three operators.
TokAlphabet == {"a", "b", SP, "<", ">", "|"}

InitTok ==
    /\ \E l \in SeqsUpTo(TokAlphabet, MaxTokLine) :
          data = [s \in Streams |-> IF s = "stdin" THEN l \o <<NL>> ELSE <<>>]
    /\ pos = [s \in Streams |-> 0]
    /\ InitStatic
    /\ argc = 1 /\ stdin_tty = FALSE /\ fopen_ok = TRUE
    /\ interactive = FALSE /\ input_source = "stdin" /\ mpc = "start"
    /\ exit_code = 0 /\ greetings = 0 /\ prompts = 0 /\ farewells = 0
    /\ tokens = <<>> /\ token_count = 0 /\ children = 0

NextTok ==
    \/ MainStart
    \/ MainRead
    \/ MainLine
    \/ \E n \in 1..READ_CHUNK_SIZE : ReadChunk(n)
    \/ ReadEOF

SpecTok == InitTok /\ [][NextTok]_vars

\* ------------------------------------------------- reference line splitting
\* d split on newline bytes: newline stripped, a non-empty unterminated tail is
\* a last line, no empty line after a final newline.
RECURSIVE Split(_, _)
Split(d, cur) ==
    IF d = <<>> THEN (IF cur = <<>> THEN <<>> ELSE <<cur>>)
    ELSE IF Head(d) = NL THEN <<cur>> \o Split(Tail(d), <<>>)
    ELSE Split(Tail(d), Append(cur, Head(d)))

RefSplit(d) == Split(d, <<>>)

RECURSIVE LastLine(_, _)
LastLine(d, cur) ==
    IF d = <<>> THEN cur
    ELSE IF Head(d) = NL THEN LastLine(Tail(d), <<>>)
    ELSE LastLine(Tail(d), Append(cur, Head(d)))

\* The bytes after the last newline of d.
UnterminatedTail(d) == LastLine(d, <<>>)

NewlineCount(d) == Cardinality({i \in 1..Len(d) : d[i] = NL})

IsPrefix(a, b) == Len(a) <= Len(b) /\ a = SubSeq(b, 1, Len(a))

IsSuffix(a, b) == Len(a) <= Len(b) /\ a = SubSeq(b, Len(b) - Len(a) + 1, Len(b))

FileData == data["file"]

\* ------------------------------------------------------------------ claims

\* C1: chunk-boundary independence.  However read() cuts the stream into
\* chunks, as long as no read() fails the lines handed out so far are the
\* first lines of the reference split of the stream, and once a call has
\* answered NULL they are the whole reference split.
ChunkBoundaryIndependence ==
    (mpc = "harness" /\ nerr = 0) =>
        /\ IsPrefix(lines, RefSplit(FileData))
        /\ (rpc = "ret" /\ ~ret.null) =>
               IsPrefix(Append(lines, ret.str), RefSplit(FileData))
        /\ (rpc = "idle" /\ calls > 0 /\ ret.null) => lines = RefSplit(FileData)

\* A stream of two lines, the second unterminated, has been split completely.
ChunkBoundaryWitness ==
    /\ mpc = "harness" /\ nerr = 0
    /\ FileData = <<"a", "b", NL, "b">>
    /\ rpc = "idle" /\ ret.null
    /\ lines = <<(<<"a", "b">>), (<<"b">>)>>

\* C2: a stream that ends without a newline.  Once read() has returned 0, no
\* further read() is issued, at most one line beyond the newline-terminated
\* ones has been returned, and a call that returns after it answers NULL; in
\* runs where no read() failed that line is the whole tail, returned exactly
\* once, as the last line.
TailExactlyOnce ==
    LET tail == UnterminatedTail(FileData)
        n == NewlineCount(FileData)
    IN  (mpc = "harness" /\ tail # <<>> /\ "file" \in sawEOF) =>
            /\ rpc # "read"
            /\ Len(lines) <= n + 1
            /\ rpc = "ret" =>
                  \/ (~ret.null /\ IsSuffix(ret.str, tail) /\ Len(lines) <= n)
                  \/ ret.null
            /\ (nerr = 0 /\ rpc = "idle") =>
                  (Len(lines) = n + 1 /\ lines[n + 1] = tail)
            /\ (nerr = 0 /\ rpc = "ret") =>
                  \/ (ret = StrRet(tail) /\ Len(lines) = n)
                  \/ (ret.null /\ Len(lines) = n + 1 /\ lines[n + 1] = tail)

\* The tail "b" was returned by the second call; the third and fourth got NULL.
TailExactlyOnceWitness ==
    /\ mpc = "harness" /\ nerr = 0
    /\ FileData = <<"a", NL, "b">>
    /\ calls = 4 /\ rpc = "idle" /\ ret.null
    /\ lines = <<(<<"a">>), (<<"b">>)>>

\* C3: once a read() on the stream has returned 0, control never stands at the
\* read() of line 193 again for that stream, and a call made from then on
\* answers NULL.
NoReadAfterEOF ==
    (mpc = "harness" /\ source \in sawEOF) =>
        /\ rpc # "read"
        /\ (rpc = "ret" /\ cause \notin {"eof", "tail"}) => ret.null

\* A call made after end-of-stream has returned from the stored flag.
NoReadAfterEOFWitness ==
    /\ mpc = "harness"
    /\ "file" \in sawEOF
    /\ rpc = "ret" /\ cause = "eofflag" /\ ret.null

\* C4: a call that hit a failing read() returns something other than what a
\* call that hit end-of-stream with nothing accumulated returns.
ReadErrorDistinctFromEOF ==
    (rpc = "ret" /\ cause = "error") => ret # AfterLoop(<<>>, 0, TRUE)

BatchMode == argc = 2 /\ fopen_ok

\* C5: in batch mode every read_input call is made on the opened script
\* file, every byte consumed comes from it, and no prompt is printed.
BatchReadsScriptFile ==
    (BatchMode /\ mpc # "start") =>
        /\ rpc # "idle" => source = input_source
        /\ pos["stdin"] = 0
        /\ prompts = 0

\* C6 as claimed: with zero arguments, whatever standard input is, the
\* greeting is printed once before the first read, one prompt precedes every
\* read_input call, and the farewell is printed once when the loop has ended.
ZeroArgsAlwaysInteractive ==
    (argc = 1 /\ mpc # "start") =>
        /\ greetings = 1
        /\ prompts = calls
        /\ farewells = Count(mpc = "exited")

\* C6 as amended: the same, for zero arguments and standard input a terminal.
ZeroArgsOnTerminalInteractive ==
    (argc = 1 /\ stdin_tty /\ mpc # "start") =>
        /\ greetings = 1
        /\ prompts = calls
        /\ farewells = Count(mpc = "exited")

\* Two lines were read at the terminal and the session has ended.
InteractiveWitness ==
    /\ argc = 1 /\ stdin_tty
    /\ mpc = "exited" /\ calls = 2 /\ prompts = 2
    /\ greetings = 1 /\ farewells = 1

FirstTokenIn(line, words) ==
    \E k \in 1..Len(line) :
        /\ \A j \in 1..(k - 1) : line[j] \in {SP, TAB, NL}
        /\ \E w \in words :
              /\ k + Len(w) - 1 <= Len(line)
              /\ SubSeq(line, k, k + Len(w) - 1) = w
              /\ (k + Len(w) <= Len(line) =>
                     line[k + Len(w)] \in {SP, TAB, NL, "<", ">", "|"})

LastLineRead == lines[Len(lines)]

EndedByTerminator ==
    /\ mpc = "exited" /\ ~ret.null
    /\ FirstTokenIn(ret.str, {ExitWord, DieWord})

EndedByEndOfInput ==
    mpc = "exited" /\ ret.null /\ cause \in {"eof", "eofflag"}

RejectedAtStart == argc > 2 \/ (argc = 2 /\ ~fopen_ok)

\* C7: the exit code is 0 when the session ends through an exit line, a die
\* line or end-of-input; it is non-zero, and no input was read, when there
\* are too many arguments or the batch file cannot be opened.
ExitCodes ==
    /\ (mpc = "exited" /\ RejectedAtStart) =>
           /\ exit_code # 0
           /\ calls = 0 /\ lines = <<>>
           /\ pos = [s \in Streams |-> 0]
    /\ (~RejectedAtStart /\ (EndedByTerminator \/ EndedByEndOfInput)) =>
           exit_code = 0

\* A session that was ended by an exit line.
ExitCodesWitness ==
    /\ mpc = "exited" /\ exit_code = 0
    /\ ~ret.null /\ ret.str = ExitWord
    /\ Len(lines) = 2

DigitValue(c) ==
    CASE c = "0" -> 0 [] c = "1" -> 1 [] c = "2" -> 2 [] c = "3" -> 3 [] c = "4" -> 4
      [] c = "5" -> 5 [] c = "6" -> 6 [] c = "7" -> 7 [] c = "8" -> 8 [] c = "9" -> 9

\* C8: a line "die <code>" ends the session with <code> as the exit code.
DieSetsExitCode ==
    \A c \in {"0", "1", "2", "3", "4", "5", "6", "7", "8", "9"} :
        (mpc = "exited" /\ ~ret.null /\ ret.str = DieWord \o <<SP, c>>) =>
            exit_code = DigitValue(c)

\* C9: a line whose first token is exit or die is the last one: the session
\* has ended with it and every read_input call made has returned a line;
\* a line that has a first token other than exit and die leaves the loop running.
TerminatorEndsSession ==
    (mpc \notin {"start", "harness"}) =>
        /\ \A i \in 1..Len(lines) :
              FirstTokenIn(lines[i], {ExitWord, DieWord}) =>
                  /\ i = Len(lines)
                  /\ mpc = "exited" /\ rpc = "idle"
                  /\ calls = Len(lines)
        /\ (rpc = "idle" /\ calls > 0 /\ ~ret.null
              /\ ~FirstTokenIn(ret.str, {ExitWord, DieWord})) => mpc = "loop"

\* "a exit" was read and did not end the session; the "die 3" after it did.
TerminatorWitness ==
    /\ mpc = "exited"
    /\ lines = <<(<<"a", SP>> \o ExitWord), (DieWord \o <<SP, "3">>)>>
    /\ pos["stdin"] <= Len(data["stdin"])

IsBlank(line) == \A i \in 1..Len(line) : line[i] \in {SP, TAB, NL}

\* C10: a line that is empty or all whitespace has no tokens, does not end the
\* session, and leaves main() at the top of the loop, about to read again.
BlankLineSkipped ==
    (mpc \notin {"start", "harness"} /\ rpc = "idle" /\ calls > 0
        /\ ~ret.null /\ IsBlank(ret.str)) =>
            /\ token_input(ret.str) = <<>>
            /\ mpc = "loop"
            /\ farewells = 0

\* An empty line and a whitespace-only line were skipped and a third call made.
BlankLineWitness ==
    /\ lines = <<(<<>>), (<<SP, TAB>>)>>
    /\ calls = 3 /\ mpc = "wait"

\* C11: a call on a stream other than the one of the previous call starts from
\* a reset reader.  Since the reader was last bound to the current stream, the
\* lines returned are the reference split of that stream's bytes from the
\* offset it had then, the residual bytes are the bytes of that stream just
\* before its offset, and the end-of-stream flag is set only at its end.
SwitchResetsReader ==
    (mpc = "switch" /\ last_file # NoFile) =>
        LET s == last_file
            since == SubSeq(lines, mark.nlines + 1, Len(lines))
            rest == SubSeq(data[s], mark.pos + 1, Len(data[s]))
        IN  /\ IsPrefix(since, RefSplit(rest))
            /\ (rpc = "ret" /\ ~ret.null) =>
                   IsPrefix(Append(since, ret.str), RefSplit(rest))
            /\ (rpc = "idle" /\ ret.null) => since = RefSplit(rest)
            /\ Len(leftover) <= pos[s] - mark.pos
            /\ leftover = SubSeq(data[s], pos[s] - Len(leftover) + 1, pos[s])
            /\ eof_reached => pos[s] = Len(data[s])

\* stdin was read to its end with the residual "a" pending; the next call, on
\* the file, returned the file's first line.
SwitchWitness ==
    /\ mpc = "switch"
    /\ data = [stdin |-> <<"a", NL, "a">>, file |-> <<"b", NL>>]
    /\ pos["stdin"] = 3
    /\ last_file = "file" /\ rpc = "idle"
    /\ lines = <<(<<"a">>), (<<"b">>)>>

\* C12: a failing read() ends the session in the normal way.  The call that
\* hit it is the last read_input call and the only one that returned NULL, no
\* read() is issued after it, and main() has printed the farewell of its mode
\* and exited with status 0.
ReadErrorEndsSession ==
    (mpc \notin {"harness", "switch"} /\ cause = "error") =>
        /\ rpc # "read"
        /\ nerr = 1
        /\ calls = Len(lines) + 1
        /\ rpc = "idle" =>
              /\ mpc = "exited"
              /\ exit_code = 0
              /\ farewells = Count(interactive)

\* At a terminal, one line was processed, then read() failed and the shell left.
ReadErrorWitness ==
    /\ cause = "error" /\ rpc = "idle"
    /\ mpc = "exited" /\ exit_code = 0
    /\ interactive /\ farewells = 1
    /\ Len(lines) = 1 /\ calls = 2

RECURSIVE ConcatAll(_)
ConcatAll(ss) == IF ss = <<>> THEN <<>> ELSE Head(ss) \o ConcatAll(Tail(ss))

RECURSIVE Without(_, _)
Without(line, drop) ==
    IF line = <<>> THEN <<>>
    ELSE IF Head(line) \in drop THEN Without(Tail(line), drop)
    ELSE <<Head(line)>> \o Without(Tail(line), drop)

Blanks == {SP, TAB, NL}
OperatorChars == {"<", ">", "|"}

\* Operator characters of the line, plus maximal runs of other non-blank ones.
ExpectedTokenCount(line) ==
    Cardinality({i \in 1..Len(line) :
        \/ line[i] \in OperatorChars
        \/ /\ line[i] \notin Blanks
           /\ (i = 1 \/ line[i - 1] \in Blanks \cup OperatorChars)})

\* C13: for the line main() has just tokenized: token_count is the number of
\* tokens; no token is empty or holds a blank; a token holding < > or | is
\* that one character; the tokens, in order, are the line without its blanks;
\* and there are as many as the line has operator characters and words.
\* In particular a>b gives a, >, b.
TokenizerContract ==
    (mpc \in {"loop", "exited"} /\ rpc = "idle" /\ calls > 0 /\ ~ret.null) =>
        LET line == ret.str
        IN  /\ token_count = Len(tokens)
            /\ \A k \in 1..Len(tokens) :
                  /\ tokens[k] # <<>>
                  /\ \A j \in 1..Len(tokens[k]) :
                        /\ tokens[k][j] \notin Blanks
                        /\ tokens[k][j] \in OperatorChars => Len(tokens[k]) = 1
            /\ ConcatAll(tokens) = Without(line, Blanks)
            /\ Len(tokens) = ExpectedTokenCount(line)
            /\ line = <<"a", ">", "b">> =>
                  tokens = <<(<<"a">>), (<<">">>), (<<"b">>)>>

\* The line a>b has been tokenized into three tokens.
TokenizerWitness ==
    /\ mpc = "loop" /\ rpc = "idle" /\ ~ret.null
    /\ ret.str = <<"a", ">", "b">>
    /\ token_count = 3
    /\ tokens = <<(<<"a">>), (<<">">>), (<<"b">>)>>

IsWord(tok) == tok # <<>> /\ \A j \in 1..Len(tok) : tok[j] \notin OperatorChars

\* C14: once main() has processed a line cmd1 | cmd2, two child processes
\* have been run for it.
PipelineRunsTwoChildren ==
    (mpc \in {"loop", "exited"} /\ rpc = "idle" /\ calls > 0 /\ ~ret.null
        /\ Len(tokens) = 3 /\ IsWord(tokens[1]) /\ tokens[2] = <<"|">>
        /\ IsWord(tokens[3])) =>
            children = 2

HasNewline(b) == \E i \in 1..Len(b) : b[i] = NL

FirstNewline(b) == CHOOSE i \in 1..Len(b) : b[i] = NL /\ \A j \in 1..(i - 1) : b[j] # NL

\* C15: a call on the bound stream that finds a newline in the residual
\* returns the residual bytes before the first newline, keeps exactly the
\* bytes after it as the residual, and neither reads from the stream nor
\* touches the end-of-stream flag.
ResidualLineReturned ==
    [][(mpc = "harness" /\ rpc = "idle" /\ rpc' # "idle" /\ HasNewline(leftover)) =>
          LET k == FirstNewline(leftover)
          IN  /\ rpc' = "ret"
              /\ ret' = StrRet(SubSeq(leftover, 1, k - 1))
              /\ leftover' = SubSeq(leftover, k + 1, Len(leftover))
              /\ eof_reached' = eof_reached
              /\ pos' = pos
              /\ nerr' = nerr /\ sawEOF' = sawEOF]_vars

\* One read() fetched a\na\nb; the second call returned "a" from the residual
\* a\nb and left b.
ResidualLineWitness ==
    /\ mpc = "harness"
    /\ FileData = <<"a", NL, "a", NL, "b">>
    /\ pos["file"] = 5 /\ calls = 2
    /\ rpc = "ret" /\ cause = "residual"
    /\ ret = StrRet(<<"a">>)
    /\ leftover = <<"b">>
    /\ ~eof_reached

RECURSIVE IsDoubledChunk(_)
IsDoubledChunk(c) ==
    \/ c = READ_CHUNK_SIZE
    \/ (c > READ_CHUNK_SIZE /\ c % 2 = 0 /\ IsDoubledChunk(c \div 2))

\* C16: the line buffer is unallocated and empty, or its capacity is
\* READ_CHUNK_SIZE doubled some number of times and more than the number of
\* bytes stored, so that the byte at index size is inside the allocation.
CapacityDoubles ==
    (mpc = "harness") =>
        IF capacity = 0 THEN buffer = <<>>
        ELSE IsDoubledChunk(capacity) /\ Len(buffer) < capacity

\* A line of 2 * READ_CHUNK_SIZE bytes and its newline is being returned from a
\* buffer that was doubled twice.
CapacityWitness ==
    /\ mpc = "harness" /\ rpc = "ret" /\ ~ret.null
    /\ Len(buffer) = 2 * READ_CHUNK_SIZE + 1
    /\ capacity = 4 * READ_CHUNK_SIZE

\* C17: the residual never holds more than READ_CHUNK_SIZE - 1 bytes, and
\* whenever control stands at the read() of line 193 the residual is empty.
ResidualBounded ==
    (mpc = "harness") =>
        /\ Len(leftover) <= READ_CHUNK_SIZE - 1
        /\ rpc = "read" => leftover = <<>>

\* A full chunk began with a newline: the other READ_CHUNK_SIZE - 1 bytes are
\* the residual.
ResidualBoundedWitness ==
    /\ mpc = "harness" /\ rpc = "ret"
    /\ ret = StrRet(<<>>)
    /\ Len(leftover) = READ_CHUNK_SIZE - 1

\* C18: on one stream, whenever the end-of-stream flag is set the residual is
\* empty, so the NULL of line 146-148 is returned with nothing held back.
EofImpliesNoResidual ==
    (mpc = "harness") =>
        /\ eof_reached => leftover = <<>>
        /\ (rpc = "ret" /\ cause = "eofflag") =>
               /\ ret.null /\ leftover = <<>>
               /\ pos["file"] = Len(FileData)

\* After a line from a chunk, its residual as the tail, and end-of-stream, a
\* third call took the early return.
EofImpliesNoResidualWitness ==
    /\ mpc = "harness" /\ FileData = <<"a", NL, "b">>
    /\ rpc = "ret" /\ cause = "eofflag" /\ eof_reached
    /\ lines = << <<"a">>, <<"b">> >> /\ calls = 3 /\ nerr = 0

\* The lines handed to the caller so far, the one being returned included.
Returned == IF rpc = "ret" /\ ~ret.null THEN Append(lines, ret.str) ELSE lines

\* Every line followed by a newline.
Terminated(ls) == ConcatAll([k \in 1..Len(ls) |-> ls[k] \o <<NL>>])

BytesRead == SubSeq(FileData, 1, pos["file"])

\* The returned lines, then the residual, are the bytes read, where the last
\* line may be a tail without its newline.
Conserved ==
    LET all == Terminated(Returned)
    IN  \/ all \o leftover = BytesRead
        \/ /\ Returned # <<>> /\ leftover = <<>>
           /\ SubSeq(all, 1, Len(all) - 1) = BytesRead

\* C19: at every return of read_input on one stream, the lines returned so
\* far, each with its newline except a final unterminated tail, followed by
\* the residual, are exactly the bytes obtained from read() so far, also
\* after a call that ended with a read error.
ByteConservation ==
    (mpc = "harness" /\ rpc = "ret") => Conserved

\* The same with no failed read().
ByteConservationNoError ==
    (mpc = "harness" /\ rpc = "ret" /\ nerr = 0) => Conserved

\* A read error returned NULL after a byte had been read into the buffer.
ByteLostState ==
    /\ mpc = "harness" /\ rpc = "ret" /\ cause = "error"
    /\ pos["file"] > 0 /\ lines = <<>> /\ leftover = <<>>

\* The session read the lines of standard input one per iteration, up to and
\* including the first with exit or die as first token, or all of them and
\* then the NULL of end-of-input.
EndsAtFirstTerminatorOrEOF ==
    LET ref == RefSplit(data["stdin"])
        terms == {i \in 1..Len(ref) : FirstTokenIn(ref[i], {ExitWord, DieWord})}
    IN  IF terms = {}
        THEN lines = ref /\ ret.null /\ calls = Len(ref) + 1
        ELSE LET k == CHOOSE i \in terms : \A j \in terms : i <= j
             IN  lines = SubSeq(ref, 1, k) /\ ~ret.null /\ calls = k

\* C20: on a finite input every read_input call that waits in read() comes to
\* its return, the main loop comes to its end, and with no failed read() the
\* session has then consumed one line per iteration up to the first exit or
\* die line, or up to end-of-input when there is none.
SessionTerminates ==
    /\ <>(mpc = "exited")
    /\ (rpc = "read") ~> (rpc = "ret")
    /\ []((mpc = "exited" /\ ~RejectedAtStart /\ nerr = 0) =>
             EndsAtFirstTerminatorOrEOF)

\* The session ended at an exit line with a die line still unread behind it.
SessionTerminatesWitness ==
    /\ mpc = "exited" /\ argc = 1 /\ nerr = 0
    /\ data["stdin"] = JoinLines(<<ExitWord, DieWord>>, TRUE)
    /\ lines = <<ExitWord>> /\ calls = 1

====
